---------------------------- MODULE Spec2Model ----------------------------
(***************************************************************************)
(* Model of mafumafu.py: the exact expected-utility evaluator              *)
(* (calculate_expected_utility_exactly with its memoized inner recursion)  *)
(* and the budget-constrained combination search                           *)
(* (find_best_combination_exactly).                                        *)
(*                                                                         *)
(* Arithmetic.  The program computes with Python floats.  Here an expected *)
(* sum over t remaining trials is the integer numerator of the exact       *)
(* rational with denominator 36^t, and an expected average over r trials   *)
(* is the numerator over EvalDen(r) = 36^r * r.  Within one search all     *)
(* utilities share r, so comparing numerators compares the rationals.      *)
(* The binary64 rounding of the single-trial sum is modelled separately    *)
(* (operators prefixed F).                                                 *)
(***************************************************************************)
EXTENDS Integers, Sequences, FiniteSets, TLC

\* ------------------------------------------------------------------ bounds
MaxR == 3          \* largest trial count r the search is run with
MaxTrials == 3     \* largest trial count r the evaluator is called with directly
MaxStock == 2      \* largest initial stock the evaluator is called with directly
MaxFloatStock == 1 \* largest initial stock in the binary64 runs of a single trial
Limbs == 5         \* digits of the fixed-point grid that holds the doubles
LimbBits == 16     \* bits of one digit of that grid

\* --------------------------------------------------------- program constants
TOTAL_DICE_OUTCOMES == 36
price_b == 500
price_c == 1500
price_d == 5000
MinN == -6
MaxN == 6
Infinity == 2147483647
MantissaBits == 53 \* significand of a Python float (IEEE 754 binary64)

DiceSums == 2..12

DICE_PROBABILITIES ==
    [k \in DiceSums |->
        CASE k = 2 -> 1 [] k = 3 -> 2 [] k = 4 -> 3 [] k = 5 -> 4
          [] k = 6 -> 5 [] k = 7 -> 6 [] k = 8 -> 5 [] k = 9 -> 4
          [] k = 10 -> 3 [] k = 11 -> 2 [] k = 12 -> 1]

a_options ==
    << [bonus |-> 0, price |-> 0,     name |-> "None"],
       [bonus |-> 1, price |-> 5000,  name |-> "A1"],
       [bonus |-> 2, price |-> 30000, name |-> "A2"] >>

RECURSIVE Pow36(_)
Pow36(t) == IF t <= 0 THEN 1 ELSE TOTAL_DICE_OUTCOMES * Pow36(t - 1)

\* Denominator of an expected average over r trials (the "/ r" of the entry
\* point applied to an expected sum with denominator 36^r).
EvalDen(r0) == IF r0 >= 1 THEN Pow36(r0) * r0 ELSE 1

\* ---------------------------------------------------------- trial transition
SBonus(s0) == IF s0 = 1 THEN 2 ELSE 0

ModifiedTotal(n0, two_d6, s_bonus, item_a_bonus) ==
    n0 + two_d6 + s_bonus + item_a_bonus

BaseOutcome(two_d6, m) ==
    IF two_d6 = 2 THEN 0
    ELSE IF two_d6 = 12 THEN 1
    ELSE IF m >= 7 THEN 1
    ELSE 0

\* Variant: "if b_stock > 0:" with the test of m nested under it, so that B
\* in stock keeps C and D from being tried.
Override_nested(base, m, b_stock, c_stock, d_stock) ==
    IF base = 0
    THEN IF b_stock > 0
         THEN (IF m = 6 THEN "B" ELSE "none")
         ELSE IF c_stock > 0 /\ (m = 5 \/ m = 6) THEN "C"
         ELSE IF d_stock > 0 /\ (m = 4 \/ m = 5 \/ m = 6) THEN "D"
         ELSE "none"
    ELSE "none"

\* Variant: C is tested before B.
Override_C_first(base, m, b_stock, c_stock, d_stock) ==
    IF base = 0
    THEN IF c_stock > 0 /\ (m = 5 \/ m = 6) THEN "C"
         ELSE IF b_stock > 0 /\ m = 6 THEN "B"
         ELSE IF d_stock > 0 /\ (m = 4 \/ m = 5 \/ m = 6) THEN "D"
         ELSE "none"
    ELSE "none"

\* Variant: the last unit of B is never used ("b_stock > 1").
Override_keeps_last_B(base, m, b_stock, c_stock, d_stock) ==
    IF base = 0
    THEN IF b_stock > 1 /\ m = 6 THEN "B"
         ELSE IF c_stock > 0 /\ (m = 5 \/ m = 6) THEN "C"
         ELSE IF d_stock > 0 /\ (m = 4 \/ m = 5 \/ m = 6) THEN "D"
         ELSE "none"
    ELSE "none"

\* Variant: D overrides without a test of its stock.
Override_D_unchecked(base, m, b_stock, c_stock, d_stock) ==
    IF base = 0
    THEN IF b_stock > 0 /\ m = 6 THEN "B"
         ELSE IF c_stock > 0 /\ (m = 5 \/ m = 6) THEN "C"
         ELSE IF m = 4 \/ m = 5 \/ m = 6 THEN "D"
         ELSE "none"
    ELSE "none"

\* Which resource overrides a base outcome of 0: "B", "C", "D" or "none".
Override(base, m, b_stock, c_stock, d_stock) ==
    IF base = 0
    THEN IF b_stock > 0 /\ m = 6 THEN "B"
         ELSE IF c_stock > 0 /\ (m = 5 \/ m = 6) THEN "C"
         ELSE IF d_stock > 0 /\ (m = 4 \/ m = 5 \/ m = 6) THEN "D"
         ELSE "none"
    ELSE "none"

\* One pass of the body of the dice loop, up to the recursive call.
Trial(n0, s_bonus, item_a_bonus, two_d6, b_stock, c_stock, d_stock) ==
    LET m    == ModifiedTotal(n0, two_d6, s_bonus, item_a_bonus)
        base == BaseOutcome(two_d6, m)
        used == Override(base, m, b_stock, c_stock, d_stock)
    IN  [ k    |-> two_d6,
          m    |-> m,
          base |-> base,
          used |-> used,
          u    |-> IF used = "none" THEN base ELSE 1,
          b    |-> b_stock,
          c    |-> c_stock,
          d    |-> d_stock,
          nb   |-> IF used = "B" THEN b_stock - 1 ELSE b_stock,
          nc   |-> IF used = "C" THEN c_stock - 1 ELSE c_stock,
          nd   |-> IF used = "D" THEN d_stock - 1 ELSE d_stock ]

\* -------------------------------------------------- un-memoized recursion
\* What calculate_expected_utility_recursive computes when the memo lookup
\* and store are left out: V(0, stocks) = 0 and, for t >= 1 trials remaining,
\* V(t, stocks) = sum over the dice sums of
\* (outcome + V(t - 1, next stocks)) * weight / 36, as a numerator over 36^t.
\* ValueLevel(.., t) is V(t, .) on all stocks up to MaxStock; each level is
\* built from the level below (merging with the empty function changes
\* nothing and makes TLC tabulate the level once).
StockSpace == (0..MaxStock) \X (0..MaxStock) \X (0..MaxStock)

RECURSIVE DiceSum(_, _, _, _, _, _, _)
DiceSum(n0, s_bonus, a, t, prev, x, two_d6) ==
    IF two_d6 > 12 THEN 0
    ELSE LET tr == Trial(n0, s_bonus, a, two_d6, x[1], x[2], x[3])
         IN  (tr.u * Pow36(t - 1) + prev[<<tr.nb, tr.nc, tr.nd>>])
               * DICE_PROBABILITIES[two_d6]
             + DiceSum(n0, s_bonus, a, t, prev, x, two_d6 + 1)

RECURSIVE ValueLevel(_, _, _, _)
ValueLevel(n0, s_bonus, a, t) ==
    IF t = 0 THEN [x \in StockSpace |-> 0]
    ELSE LET prev == ValueLevel(n0, s_bonus, a, t - 1)
         IN  [x \in StockSpace |-> DiceSum(n0, s_bonus, a, t, prev, x, 2)]
               @@ << >>

ValueTable ==
    [p \in (MinN..MaxN) \X {0, 2} \X (0..2) |->
        [t \in 0..MaxTrials |-> ValueLevel(p[1], p[2], p[3], t)] @@ << >>]
      @@ << >>

ExpectedSum(n0, s_bonus, a, current_r, b, c, d) ==
    ValueTable[<<n0, s_bonus, a>>][current_r][<<b, c, d>>]

\* ----------------------------------------------------- memoized recursion
\* The same recursion with the memo threaded through as a value: the result
\* is [val, memo], memo being the dictionary after the call.
EmptyMemo == [key \in {} |-> 0]

MemoStore(memo0, key, val) ==
    [x \in (DOMAIN memo0) \cup {key} |-> IF x = key THEN val ELSE memo0[x]]

RECURSIVE RecursiveCall(_, _, _, _, _, _, _, _)
RECURSIVE DiceLoop(_, _, _, _, _, _, _, _, _, _)
DiceLoop(n0, s_bonus, a, memo0, current_r, b, c, d, two_d6, acc) ==
    IF two_d6 > 12 THEN [val |-> acc, memo |-> memo0]
    ELSE LET t   == Trial(n0, s_bonus, a, two_d6, b, c, d)
             sub == RecursiveCall(n0, s_bonus, a, memo0, current_r - 1,
                                  t.nb, t.nc, t.nd)
         IN  DiceLoop(n0, s_bonus, a, sub.memo, current_r, b, c, d, two_d6 + 1,
                      acc + (t.u * Pow36(current_r - 1) + sub.val)
                              * DICE_PROBABILITIES[two_d6])

RecursiveCall(n0, s_bonus, a, memo0, current_r, b, c, d) ==
    LET state_key == <<current_r, b, c, d>>
    IN  IF current_r = 0 THEN [val |-> 0, memo |-> memo0]
        ELSE IF state_key \in DOMAIN memo0
             THEN [val |-> memo0[state_key], memo |-> memo0]
             ELSE LET res == DiceLoop(n0, s_bonus, a, memo0, current_r,
                                      b, c, d, 2, 0)
                  IN  [val  |-> res.val,
                       memo |-> MemoStore(res.memo, state_key, res.val)]

\* Variant: one dictionary shared by all calls.
KeepMemo(previous) == previous

\* The memo a top-level call starts from: "memo = {}" builds a new dictionary
\* whatever an earlier call left behind.
FreshMemo(previous) == EmptyMemo

\* calculate_expected_utility_exactly for r >= 1: the numerator of the
\* returned average over EvalDen(r).  (The per-trial loop that precedes the
\* memoized recursion in the function only assigns locals that are never
\* read again.)
calculate_expected_utility_exactly(n0, s0, r0, item_a_bonus, b_qty0, c_qty0, d_qty0) ==
    RecursiveCall(n0, SBonus(s0), item_a_bonus, FreshMemo(EmptyMemo), r0,
                  b_qty0, c_qty0, d_qty0).val


\* ------------------------------------------------------ binary64 arithmetic
\* The doubles of a single-trial evaluation (r = 1) lie in [0, 2) and are
\* multiples of 2^-58, so each is held exactly as a fixed-point number: a
\* sequence of Limbs digits in base 2^LimbBits, most significant first, the
\* first digit being the integer part.  An operation is the exact operation
\* followed by rounding to MantissaBits significant bits, ties to even.
RECURSIVE Pow2(_)
Pow2(e) == IF e <= 0 THEN 1 ELSE 2 * Pow2(e - 1)

Base == Pow2(LimbBits)
TotalBits == Limbs * LimbBits
FixZero == [i \in 1..Limbs |-> 0]

\* Bit pos of x, bit 1 being the most significant bit of the first digit.
LimbOf(pos) == ((pos - 1) \div LimbBits) + 1
ShiftOf(pos) == LimbBits - 1 - ((pos - 1) % LimbBits)
Bit(x, pos) == (x[LimbOf(pos)] \div Pow2(ShiftOf(pos))) % 2

\* The digits after the integer part of rem / q (rem < q), count of them,
\* and what is left.
RECURSIVE FracDigits(_, _, _)
FracDigits(rem, q, count) ==
    IF count = 0 THEN [digits |-> << >>, rem |-> rem]
    ELSE LET digit == (rem * Base) \div q
             rest  == FracDigits((rem * Base) % q, q, count - 1)
         IN  [digits |-> <<digit>> \o rest.digits, rem |-> rest.rem]

\* p / q cut to the grid, sticky saying that something was cut off.
FixQuotient(p, q) ==
    LET frac == FracDigits(p % q, q, Limbs - 1)
    IN  [digits |-> <<p \div q>> \o frac.digits, sticky |-> frac.rem # 0]

\* Digits i..Limbs of x + y and the carry out of them.
RECURSIVE AddTail(_, _, _)
AddTail(x, y, i) ==
    IF i > Limbs THEN [digits |-> << >>, carry |-> 0]
    ELSE LET rest == AddTail(x, y, i + 1)
             sum  == x[i] + y[i] + rest.carry
         IN  [digits |-> <<sum % Base>> \o rest.digits, carry |-> sum \div Base]

FixAdd(x, y) == AddTail(x, y, 1).digits

\* Position of the leading 1 bit of x, 0 when x is zero.
LeadingOne(x) ==
    IF \E pos \in 1..TotalBits : Bit(x, pos) = 1
    THEN CHOOSE pos \in 1..TotalBits :
            Bit(x, pos) = 1 /\ \A before \in 1..(pos - 1) : Bit(x, before) = 0
    ELSE 0

\* Position of the last bit of the significand of a double of x's magnitude.
LastBit(x) == LeadingOne(x) + MantissaBits - 1

\* One unit in the last place of a double of the magnitude of x.
UlpOf(x) ==
    [i \in 1..Limbs |->
        IF i = LimbOf(LastBit(x)) THEN Pow2(ShiftOf(LastBit(x))) ELSE 0]

\* x with the bits after its significand cleared.
Truncated(x) ==
    [i \in 1..Limbs |->
        IF i < LimbOf(LastBit(x)) THEN x[i]
        ELSE IF i = LimbOf(LastBit(x))
             THEN x[i] - (x[i] % Pow2(ShiftOf(LastBit(x))))
             ELSE 0]

\* Variant: rounding toward zero.
RoundTowardZero(x, sticky) ==
    IF LeadingOne(x) = 0 \/ LastBit(x) >= TotalBits THEN x ELSE Truncated(x)

\* x (plus a nonzero remainder below the grid when sticky) rounded to the
\* nearest double, ties to even.
RoundNearestEven(x, sticky) ==
    LET last  == LastBit(x)
        guard == Bit(x, last + 1)
        below == sticky \/ \E pos \in (last + 2)..TotalBits : Bit(x, pos) = 1
    IN  IF LeadingOne(x) = 0 \/ last >= TotalBits THEN x
        ELSE IF guard = 1 /\ (below \/ Bit(x, last) = 1)
             THEN FixAdd(Truncated(x), UlpOf(x))
             ELSE Truncated(x)

\* count / TOTAL_DICE_OUTCOMES: Python's int / int is correctly rounded.
FDiv(p, q) ==
    LET quot == FixQuotient(p, q)
    IN  RoundNearestEven(quot.digits, quot.sticky)

\* expected_u_sum_this_state += term
FAdd(x, y) == RoundNearestEven(FixAdd(x, y), FALSE)

\* (u_this_dice_outcome + 0.0) * prob_two_d6, the recursive call having
\* returned 0.0: the left factor is 0.0 or 1.0 and the product is exact.
FTimesOutcome(u, prob) == IF u = 0 THEN FixZero ELSE prob

\* ------------------------------------------------------------------- state
VARIABLES
    n, r, s, P,             \* arguments of find_best_combination_exactly
    pc,                     \* position of the search: "a", "b", "c", "d", "done", "raised"
    a_idx, b_qty, c_qty, d_qty,   \* loop variables of the four nested loops
    best_utility, best_combination, min_cost_diff,
    evaluated,              \* history: the candidates handed to the evaluator, in order
    call,                   \* arguments of the current call of calculate_expected_utility_exactly
    epc,                    \* "idle", "running" or "returned"
    memo,                   \* the memo dictionary
    stack,                  \* active frames of calculate_expected_utility_recursive
    ret,                    \* value returned by the frame that finished last
    result,                 \* numerator of the value the top-level call returned
    trial,                  \* history: the trial transition computed last
    facc,                   \* expected_u_sum_this_state as the double the program holds
    fresult                 \* the double the top-level call returned

searchVars == <<n, r, s, P, pc, a_idx, b_qty, c_qty, d_qty,
                best_utility, best_combination, min_cost_diff, evaluated>>
floatVars == <<facc, fresult>>
evalVars == <<call, epc, memo, stack, ret, result, trial, floatVars>>
vars == <<searchVars, evalVars>>

\* ------------------------------------------------ find_best_combination_exactly
EmptyCombination == [x \in {} |-> 0]

Combination(a_opt, b, c, d, total, utility) ==
    [ A_item |-> a_opt.name, A_price |-> a_opt.price,
      B_quantity |-> b, C_quantity |-> c, D_quantity |-> d,
      Total_Cost |-> total, Expected_Average_Utility |-> utility ]

\* Budgets the search is run with (a negative one among them).
Budgets == {-500, 0, 500, 2500, 4000, 5000, 7000, 30000, 31500}

ValidProfiles ==
    { <<n0, r0, s0, P0>> \in (MinN..MaxN) \X (1..MaxR) \X {0, 1} \X Budgets : P0 >= 0 }

\* Profiles with exactly one argument outside its documented domain.
InvalidProfiles ==
    { <<n0, 1, 0, 5000>> : n0 \in {MinN - 1, MaxN + 1} }
      \cup { <<0, r0, 0, 5000>> : r0 \in {-1, 0} }
      \cup { <<0, 1, 2, 5000>> }
      \cup { <<0, 1, 0, P0>> : P0 \in {P1 \in Budgets : P1 < 0} }

ValidInput == n \in MinN..MaxN /\ r >= 1 /\ r <= 100 /\ s \in {0, 1} /\ P >= 0

NoTrial == [k |-> 0, m |-> 0, base |-> 0, used |-> "none", u |-> 0,
            b |-> 0, c |-> 0, d |-> 0, nb |-> 0, nc |-> 0, nd |-> 0,
            depth |-> 0, next_r |-> 0]

EvalIdle ==
    /\ call = [n |-> 0, s |-> 0, r |-> 1, a |-> 0, b |-> 0, c |-> 0, d |-> 0]
    /\ epc = "idle"
    /\ memo = EmptyMemo
    /\ stack = << >>
    /\ ret = 0
    /\ result = 0
    /\ trial = NoTrial
    /\ facc = FixZero
    /\ fresult = FixZero

SearchInit ==
    /\ \E prof \in ValidProfiles \cup InvalidProfiles :
          /\ n = prof[1]
          /\ r = prof[2]
          /\ s = prof[3]
          /\ P = prof[4]
    /\ pc = "a"
    /\ a_idx = 1
    /\ b_qty = 0
    /\ c_qty = 0
    /\ d_qty = 0
    /\ best_utility = -EvalDen(r)
    /\ best_combination = EmptyCombination
    /\ min_cost_diff = Infinity
    /\ evaluated = << >>
    /\ EvalIdle

remaining_budget_after_a == P - a_options[a_idx].price
remaining_budget_after_b == remaining_budget_after_a - b_qty * price_b
current_total_cost ==
    a_options[a_idx].price + b_qty * price_b + c_qty * price_c + d_qty * price_d

\* The stops of the three quantity ranges.
b_range_stop == r + 1
c_range_stop == r - b_qty + 1

\* Variant: the last range stops one short, range(r - b_qty - c_qty).
d_range_stop_short == r - b_qty - c_qty

d_range_stop == r - b_qty - c_qty + 1

\* for a_bonus, a_price, a_name in a_options
LoopA ==
    /\ pc = "a"
    /\ \/ /\ a_idx > Len(a_options)
          /\ pc' = "done"
          /\ UNCHANGED a_idx
          /\ UNCHANGED b_qty
       \/ /\ a_idx <= Len(a_options)
          /\ remaining_budget_after_a < 0
          /\ a_idx' = a_idx + 1
          /\ UNCHANGED pc
          /\ UNCHANGED b_qty
       \/ /\ a_idx <= Len(a_options)
          /\ remaining_budget_after_a >= 0
          /\ pc' = "b"
          /\ b_qty' = 0
          /\ UNCHANGED a_idx
    /\ UNCHANGED <<n, r, s, P, c_qty, d_qty, best_utility, best_combination,
                   min_cost_diff, evaluated, evalVars>>

\* for b_qty in range(r + 1)
LoopB ==
    /\ pc = "b"
    /\ \/ /\ b_qty >= b_range_stop
          /\ pc' = "a"
          /\ a_idx' = a_idx + 1
          /\ UNCHANGED <<b_qty, c_qty>>
       \/ /\ b_qty < b_range_stop
          /\ b_qty * price_b > remaining_budget_after_a
          /\ b_qty' = b_qty + 1
          /\ UNCHANGED <<pc, a_idx, c_qty>>
       \/ /\ b_qty < b_range_stop
          /\ b_qty * price_b <= remaining_budget_after_a
          /\ pc' = "c"
          /\ c_qty' = 0
          /\ UNCHANGED <<a_idx, b_qty>>
    /\ UNCHANGED <<n, r, s, P, d_qty, best_utility, best_combination,
                   min_cost_diff, evaluated, evalVars>>

\* for c_qty in range(r - b_qty + 1)
LoopC ==
    /\ pc = "c"
    /\ \/ /\ c_qty >= c_range_stop
          /\ pc' = "b"
          /\ b_qty' = b_qty + 1
          /\ UNCHANGED <<c_qty, d_qty>>
       \/ /\ c_qty < c_range_stop
          /\ c_qty * price_c > remaining_budget_after_b
          /\ c_qty' = c_qty + 1
          /\ UNCHANGED <<pc, b_qty, d_qty>>
       \/ /\ c_qty < c_range_stop
          /\ c_qty * price_c <= remaining_budget_after_b
          /\ pc' = "d"
          /\ d_qty' = 0
          /\ UNCHANGED <<b_qty, c_qty>>
    /\ UNCHANGED <<n, r, s, P, a_idx, best_utility, best_combination,
                   min_cost_diff, evaluated, evalVars>>

\* Variant: a tie in utility is won by a leftover that is not larger.
Replaces_on_equal_leftover(current_utility, cost_diff, best_utility0, min_cost_diff0) ==
    \/ current_utility > best_utility0
    \/ /\ current_utility = best_utility0
       /\ cost_diff <= min_cost_diff0

\* The two tests that let a candidate replace the best record.
Replaces(current_utility, cost_diff, best_utility0, min_cost_diff0) ==
    \/ current_utility > best_utility0
    \/ /\ current_utility = best_utility0
       /\ cost_diff < min_cost_diff0

\* for d_qty in range(r - b_qty - c_qty + 1): the candidate is evaluated when
\* its total cost is within the budget, and the best record updated.
LoopD ==
    /\ pc = "d"
    /\ \/ /\ d_qty >= d_range_stop
          /\ pc' = "c"
          /\ c_qty' = c_qty + 1
          /\ UNCHANGED <<d_qty, best_utility, best_combination, min_cost_diff,
                         evaluated>>
       \/ /\ d_qty < d_range_stop
          /\ current_total_cost > P
          /\ d_qty' = d_qty + 1
          /\ UNCHANGED <<pc, c_qty, best_utility, best_combination,
                         min_cost_diff, evaluated>>
       \/ /\ d_qty < d_range_stop
          /\ current_total_cost <= P
          /\ r = 0      \* the evaluator's "/ r" raises ZeroDivisionError
          /\ pc' = "raised"
          /\ evaluated' = Append(evaluated,
                 [a |-> a_idx, b |-> b_qty, c |-> c_qty, d |-> d_qty,
                  cost |-> current_total_cost, utility |-> 0])
          /\ UNCHANGED <<c_qty, d_qty, best_utility, best_combination,
                         min_cost_diff>>
       \/ /\ d_qty < d_range_stop
          /\ current_total_cost <= P
          /\ r >= 1
          /\ LET current_utility ==
                     calculate_expected_utility_exactly(n, s, r,
                         a_options[a_idx].bonus, b_qty, c_qty, d_qty)
                 cost_diff == P - current_total_cost
                 replace == Replaces(current_utility, cost_diff,
                                     best_utility, min_cost_diff)
             IN  /\ best_utility' =
                        IF replace THEN current_utility ELSE best_utility
                 /\ best_combination' =
                        IF replace
                        THEN Combination(a_options[a_idx], b_qty, c_qty, d_qty,
                                         current_total_cost, current_utility)
                        ELSE best_combination
                 /\ min_cost_diff' =
                        IF replace THEN cost_diff ELSE min_cost_diff
                 /\ evaluated' = Append(evaluated,
                        [a |-> a_idx, b |-> b_qty, c |-> c_qty, d |-> d_qty,
                         cost |-> current_total_cost, utility |-> current_utility])
          /\ d_qty' = d_qty + 1
          /\ UNCHANGED <<pc, c_qty>>
    /\ UNCHANGED <<n, r, s, P, a_idx, b_qty, evalVars>>

Next == LoopA \/ LoopB \/ LoopC \/ LoopD

Spec == SearchInit /\ [][Next]_vars


\* ------------------------------------------ calculate_expected_utility_exactly
\* One call after another of the evaluator, each run frame by frame.  A frame
\* is an activation of calculate_expected_utility_recursive in its dice loop:
\* two_d6 is the dice sum it is at, acc is expected_u_sum_this_state (numerator
\* over 36^current_r), and waiting says that the recursive call for two_d6 is
\* active in the frame above, u being the outcome computed for two_d6.
Frame(current_r, b, c, d) ==
    [current_r |-> current_r, b |-> b, c |-> c, d |-> d,
     two_d6 |-> 2, acc |-> 0, waiting |-> FALSE, u |-> 0]

SearchOff ==
    /\ n = 0
    /\ r = 1
    /\ s = 0
    /\ P = 0
    /\ pc = "off"
    /\ a_idx = 1
    /\ b_qty = 0
    /\ c_qty = 0
    /\ d_qty = 0
    /\ best_utility = 0
    /\ best_combination = EmptyCombination
    /\ min_cost_diff = Infinity
    /\ evaluated = << >>

EvalInit ==
    /\ SearchOff
    /\ \E n0 \in MinN..MaxN : \E s0 \in {0, 1} : \E r0 \in 1..MaxTrials :
          call = [n |-> n0, s |-> s0, r |-> r0, a |-> 0, b |-> 0, c |-> 0, d |-> 0]
    /\ epc = "idle"
    /\ memo = EmptyMemo
    /\ stack = << >>
    /\ ret = 0
    /\ result = 0
    /\ trial = NoTrial
    /\ facc = FixZero
    /\ fresult = FixZero

Top == stack[Len(stack)]
Pop == SubSeq(stack, 1, Len(stack) - 1)
ReplaceTop(f) == [stack EXCEPT ![Len(stack)] = f]
s_bonus == SBonus(call.s)

\* (u_this_dice_outcome + <value of the recursive call>) * prob_two_d6, as a
\* numerator over 36^current_r.
Term(f, u, sub) == (u * Pow36(f.current_r - 1) + sub) * DICE_PROBABILITIES[f.two_d6]

\* The top-level call: a new memo, then the first activation, which returns
\* at once when its key is in the memo.
EvalCall ==
    /\ epc \in {"idle", "returned"}
    /\ \E a \in 0..2 : \E b \in 0..MaxStock : \E c \in 0..MaxStock : \E d \in 0..MaxStock :
          LET memo1 == FreshMemo(memo)
              key   == <<call.r, b, c, d>>
          IN  /\ call' = [call EXCEPT !.a = a, !.b = b, !.c = c, !.d = d]
              /\ memo' = memo1
              /\ IF key \in DOMAIN memo1
                 THEN /\ stack' = << >>
                      /\ ret' = memo1[key]
                 ELSE /\ stack' = << Frame(call.r, b, c, d) >>
                      /\ ret' = 0
    /\ epc' = "running"
    /\ result' = 0
    /\ trial' = NoTrial
    /\ UNCHANGED floatVars
    /\ UNCHANGED searchVars

\* One pass of the dice loop up to and including the recursive call, which
\* returns at once (base case, memo hit) or becomes the new top frame.
Dice ==
    /\ epc = "running"
    /\ stack # << >>
    /\ ~Top.waiting
    /\ Top.two_d6 <= 12
    /\ LET f   == Top
           t   == Trial(call.n, s_bonus, call.a, f.two_d6, f.b, f.c, f.d)
           key == <<f.current_r - 1, t.nb, t.nc, t.nd>>
       IN  /\ trial' = t @@ [depth |-> Len(stack), next_r |-> f.current_r - 1]
           /\ \/ /\ f.current_r - 1 = 0
                 /\ stack' = ReplaceTop([f EXCEPT !.acc = f.acc + Term(f, t.u, 0),
                                                  !.two_d6 = f.two_d6 + 1])
              \/ /\ f.current_r - 1 # 0
                 /\ key \in DOMAIN memo
                 /\ stack' = ReplaceTop([f EXCEPT !.acc = f.acc + Term(f, t.u, memo[key]),
                                                  !.two_d6 = f.two_d6 + 1])
              \/ /\ f.current_r - 1 # 0
                 /\ key \notin DOMAIN memo
                 /\ stack' = Append(ReplaceTop([f EXCEPT !.waiting = TRUE, !.u = t.u]),
                                    Frame(f.current_r - 1, t.nb, t.nc, t.nd))
    /\ UNCHANGED <<call, epc, memo, ret, result, floatVars>>
    /\ UNCHANGED searchVars

\* The recursive call returned: its value is added and the loop goes on.
Resume ==
    /\ epc = "running"
    /\ stack # << >>
    /\ Top.waiting
    /\ stack' = ReplaceTop([Top EXCEPT !.acc = Top.acc + Term(Top, Top.u, ret),
                                       !.two_d6 = Top.two_d6 + 1,
                                       !.waiting = FALSE, !.u = 0])
    /\ UNCHANGED <<call, epc, memo, ret, result, trial, floatVars>>
    /\ UNCHANGED searchVars

\* The dice loop is over: memo[state_key] = expected_u_sum_this_state; return.
Store ==
    /\ epc = "running"
    /\ stack # << >>
    /\ ~Top.waiting
    /\ Top.two_d6 > 12
    /\ memo' = MemoStore(memo, <<Top.current_r, Top.b, Top.c, Top.d>>, Top.acc)
    /\ ret' = Top.acc
    /\ stack' = Pop
    /\ UNCHANGED <<call, epc, result, trial, floatVars>>
    /\ UNCHANGED searchVars

\* return calculate_expected_utility_recursive(r, ...) / r: the numerator is
\* kept and the denominator becomes EvalDen(r).
EvalReturn ==
    /\ epc = "running"
    /\ stack = << >>
    /\ result' = ret
    /\ epc' = "returned"
    /\ UNCHANGED <<call, memo, stack, ret, trial, floatVars>>
    /\ UNCHANGED searchVars

NextEval == EvalCall \/ Dice \/ Resume \/ Store \/ EvalReturn

SpecEval == EvalInit /\ [][NextEval]_vars

\* ------------------------------------ a single-trial call in binary64
\* Calls of calculate_expected_utility_exactly with r = 1: the one activation
\* of calculate_expected_utility_recursive runs its dice loop, every
\* recursive call returning 0.0 at once.  The accumulator is followed both
\* as the exact numerator (acc) and as the double the program holds (facc).
FloatInit ==
    /\ SearchOff
    /\ \E n0 \in MinN..MaxN : \E s0 \in {0, 1} :
          call = [n |-> n0, s |-> s0, r |-> 1, a |-> 0, b |-> 0, c |-> 0, d |-> 0]
    /\ epc = "idle"
    /\ memo = EmptyMemo
    /\ stack = << >>
    /\ ret = 0
    /\ result = 0
    /\ trial = NoTrial
    /\ facc = FixZero
    /\ fresult = FixZero

FloatCall ==
    /\ epc \in {"idle", "returned"}
    /\ \E a \in 0..2 : \E b \in 0..MaxFloatStock : \E c \in 0..MaxFloatStock :
         \E d \in 0..MaxFloatStock :
          /\ call' = [call EXCEPT !.a = a, !.b = b, !.c = c, !.d = d]
          /\ stack' = << Frame(call.r, b, c, d) >>
    /\ memo' = FreshMemo(memo)
    /\ epc' = "running"
    /\ ret' = 0
    /\ result' = 0
    /\ trial' = NoTrial
    /\ facc' = FixZero
    /\ fresult' = FixZero
    /\ UNCHANGED searchVars

FloatDice ==
    /\ epc = "running"
    /\ stack # << >>
    /\ Top.two_d6 <= 12
    /\ Top.current_r - 1 = 0
    /\ LET f == Top
           t == Trial(call.n, s_bonus, call.a, f.two_d6, f.b, f.c, f.d)
           prob_two_d6 == FDiv(DICE_PROBABILITIES[f.two_d6], TOTAL_DICE_OUTCOMES)
       IN  /\ trial' = t @@ [depth |-> Len(stack), next_r |-> f.current_r - 1]
           /\ stack' = ReplaceTop([f EXCEPT !.acc = f.acc + Term(f, t.u, 0),
                                            !.two_d6 = f.two_d6 + 1])
           /\ facc' = FAdd(facc, FTimesOutcome(t.u, prob_two_d6))
    /\ UNCHANGED <<call, epc, memo, ret, result, fresult>>
    /\ UNCHANGED searchVars

\* The loop is over: the sum is stored in the memo and returned, and the
\* entry point divides it by r = 1, which changes nothing.
FloatReturn ==
    /\ epc = "running"
    /\ stack # << >>
    /\ Top.two_d6 > 12
    /\ memo' = MemoStore(memo, <<Top.current_r, Top.b, Top.c, Top.d>>, Top.acc)
    /\ ret' = Top.acc
    /\ result' = Top.acc
    /\ fresult' = facc
    /\ stack' = Pop
    /\ epc' = "returned"
    /\ UNCHANGED <<call, trial, facc>>
    /\ UNCHANGED searchVars

NextFloat == FloatCall \/ FloatDice \/ FloatReturn

SpecFloat == FloatInit /\ [][NextFloat]_vars

\* ===================================================== claims on the search
PlanCost(a, b, c, d) ==
    a_options[a].price + b * price_b + c * price_c + d * price_d

Returned == pc = "done"

\* C1: for valid input the search returns a non-empty plan whose total cost
\* is the sum of its components' prices and at most P, and whose expected
\* average utility is at least that of every plan of cost <= P with each
\* consumable quantity in 0..r (the all-zero plan among them), including the
\* plans with qty_B + qty_C + qty_D > r that the search never evaluates.
C1_SearchOptimal ==
    (Returned /\ ValidInput) =>
        /\ DOMAIN best_combination # {}
        /\ best_combination.Total_Cost <= P
        /\ best_combination.Total_Cost =
               best_combination.A_price
                 + price_b * best_combination.B_quantity
                 + price_c * best_combination.C_quantity
                 + price_d * best_combination.D_quantity
        /\ best_combination.Expected_Average_Utility = best_utility
        /\ \A a \in 1..Len(a_options) : \A b \in 0..r : \A c \in 0..r : \A d \in 0..r :
              PlanCost(a, b, c, d) <= P =>
                  calculate_expected_utility_exactly(n, s, r, a_options[a].bonus, b, c, d)
                      <= best_utility

\* A search that returned although a strictly better affordable plan with
\* qty_B + qty_C + qty_D > r exists among those it did not evaluate would
\* refute C1; here the returned plan ties with such a plan.
C1_Witness ==
    /\ Returned
    /\ ValidInput
    /\ r >= 2
    /\ best_combination.B_quantity + best_combination.C_quantity
         + best_combination.D_quantity >= 1
    /\ best_utility >
         calculate_expected_utility_exactly(n, s, r, 0, 0, 0, 0)
    /\ \E a \in 1..Len(a_options) : \E b \in 0..r : \E c \in 0..r : \E d \in 0..r :
          /\ b + c + d > r
          /\ PlanCost(a, b, c, d) <= P
          /\ calculate_expected_utility_exactly(n, s, r, a_options[a].bonus, b, c, d)
                = best_utility

\* Indices of the evaluated candidates that beat or tie every other one.
MaxUtilityIndices ==
    { i \in 1..Len(evaluated) :
        \A j \in 1..Len(evaluated) : evaluated[j].utility <= evaluated[i].utility }

\* Among those, the ones that leave the least of the budget.
MinLeftoverIndices ==
    { i \in MaxUtilityIndices :
        \A j \in MaxUtilityIndices : evaluated[j].cost <= evaluated[i].cost }

FirstOf(S) == CHOOSE i \in S : \A j \in S : i <= j

\* C2: at every point of the search after the first evaluation, the best
\* record is the first candidate in enumeration order among those of maximum
\* utility that have the largest total cost among the candidates of maximum
\* utility; so a later candidate of equal utility and equal leftover never
\* replaces it, and the returned plan is the best record at the end.
C2_TieBreak ==
    (Len(evaluated) >= 1 /\ pc # "raised") =>
        LET w == evaluated[FirstOf(MinLeftoverIndices)]
        IN  /\ best_utility = w.utility
            /\ min_cost_diff = P - w.cost
            /\ best_combination =
                   Combination(a_options[w.a], w.b, w.c, w.d, w.cost, w.utility)

\* The search returned after meeting two candidates of maximum utility and
\* equal (largest) cost, and one of maximum utility and smaller cost.
C2_Witness ==
    /\ Returned
    /\ ValidInput
    /\ Cardinality(MinLeftoverIndices) >= 2
    /\ MaxUtilityIndices # MinLeftoverIndices
    /\ FirstOf(MinLeftoverIndices) > FirstOf(MaxUtilityIndices)

\* C5: with an argument outside its domain the search evaluates no candidate
\* and returns no result record.
C5_InvalidRejected ==
    ~ValidInput => (evaluated = << >> /\ ~Returned)


\* ================================================== claims on the evaluator
InCall == epc \in {"running", "returned"}
EvalReturned == epc = "returned"

\* The state right after the top-level call began its first dice loop.
CallStarted ==
    /\ epc = "running"
    /\ Len(stack) = 1
    /\ stack[1].two_d6 = 2
    /\ ~stack[1].waiting

\* C3: a top-level call starts from an empty memo; during and after the call
\* every memo entry equals the un-memoized recursion for its key under the
\* call's n, s_bonus and a; and the value returned, whatever calls came before,
\* is the value of the un-memoized recursion for the call's own arguments.
C3_MemoFresh ==
    /\ CallStarted => memo = EmptyMemo
    /\ InCall =>
          \A key \in DOMAIN memo :
              memo[key] = ExpectedSum(call.n, s_bonus, call.a,
                                      key[1], key[2], key[3], key[4])
    /\ EvalReturned =>
          result = ExpectedSum(call.n, s_bonus, call.a, call.r, call.b, call.c, call.d)

\* A call that returned with bonus a = 1 and left entries for states with
\* fewer trials remaining in its memo (which a following call must not see).
C3_Witness ==
    /\ EvalReturned
    /\ call.a = 1
    /\ call.r >= 2
    /\ \E key \in DOMAIN memo : key[1] < call.r /\ memo[key] > 0
    /\ \E key \in DOMAIN memo :
          memo[key] # ExpectedSum(call.n, s_bonus, 0, key[1], key[2], key[3], key[4])

\* C4: one more unit of B, of C or of D never lowers the returned expected
\* average utility.
C4_Monotone ==
    EvalReturned =>
        /\ calculate_expected_utility_exactly(call.n, call.s, call.r, call.a,
                                              call.b + 1, call.c, call.d) >= result
        /\ calculate_expected_utility_exactly(call.n, call.s, call.r, call.a,
                                              call.b, call.c + 1, call.d) >= result
        /\ calculate_expected_utility_exactly(call.n, call.s, call.r, call.a,
                                              call.b, call.c, call.d + 1) >= result

\* A returned call with B and C in stock for which one more B changes which
\* resource later trials consume, and raises the value.
C4_Witness ==
    /\ EvalReturned
    /\ call.r >= 2
    /\ call.b >= 1
    /\ call.c >= 1
    /\ calculate_expected_utility_exactly(call.n, call.s, call.r, call.a,
                                          call.b + 1, call.c, call.d) > result

\* Sum of the dice weights of the sums whose base outcome is 1.
WinningWeight(n0, s0, a) ==
    LET qualifies(k) ==
            \/ k = 12
            \/ /\ 3 <= k
               /\ k <= 11
               /\ n0 + k + (IF s0 = 1 THEN 2 ELSE 0) + a >= 7
        RECURSIVE Sum(_)
        Sum(k) == IF k > 12 THEN 0
                  ELSE (IF qualifies(k) THEN DICE_PROBABILITIES[k] ELSE 0) + Sum(k + 1)
    IN  Sum(2)

\* C7: a dice sum of 2 gives outcome 0 and leaves the stocks as they were.
C7_HardFloor ==
    trial.k = 2 =>
        /\ trial.u = 0
        /\ trial.nb = trial.b
        /\ trial.nc = trial.c
        /\ trial.nd = trial.d

\* C8: a trial changes the stocks only when its base outcome is 0, and then
\* the first applicable of B (m = 6), C (m in {5,6}), D (m in {4,5,6}) loses
\* one unit and the outcome is 1, the two other stocks staying as they were.
C8_Priority ==
    trial.k # 0 =>
        LET applB == trial.b > 0 /\ trial.m = 6
            applC == trial.c > 0 /\ trial.m \in {5, 6}
            applD == trial.d > 0 /\ trial.m \in {4, 5, 6}
            next  == <<trial.nb, trial.nc, trial.nd>>
        IN  /\ trial.base \in {0, 1}
            /\ trial.base = 1 =>
                  /\ next = <<trial.b, trial.c, trial.d>>
                  /\ trial.u = 1
            /\ (trial.base = 0 /\ applB) =>
                  /\ next = <<trial.b - 1, trial.c, trial.d>>
                  /\ trial.u = 1
            /\ (trial.base = 0 /\ ~applB /\ applC) =>
                  /\ next = <<trial.b, trial.c - 1, trial.d>>
                  /\ trial.u = 1
            /\ (trial.base = 0 /\ ~applB /\ ~applC /\ applD) =>
                  /\ next = <<trial.b, trial.c, trial.d - 1>>
                  /\ trial.u = 1
            /\ (trial.base = 0 /\ ~applB /\ ~applC /\ ~applD) =>
                  /\ next = <<trial.b, trial.c, trial.d>>
                  /\ trial.u = 0

\* A trial with B and C both in stock, m = 6 and base outcome 0: B is used.
C8_Witness ==
    /\ trial.k # 0
    /\ trial.b >= 1
    /\ trial.c >= 1
    /\ trial.d >= 1
    /\ trial.m = 6
    /\ trial.base = 0
    /\ trial.nb = trial.b - 1
    /\ trial.nc = trial.c

\* C9: in a call with stock_B = r every trial starts with stock_B > 0 and B
\* overrides whenever m = 6 and the base outcome is 0; in a call with
\* stock_B = 0 the stock stays 0 and B never overrides.
C9_Depletion ==
    /\ (epc = "running" /\ call.b = call.r) =>
          /\ \A i \in 1..Len(stack) : stack[i].b > 0
          /\ trial.k # 0 =>
                /\ trial.b > 0
                /\ (trial.m = 6 /\ trial.base = 0) => trial.used = "B"
    /\ (epc = "running" /\ call.b = 0) =>
          /\ \A i \in 1..Len(stack) : stack[i].b = 0
          /\ trial.k # 0 =>
                /\ trial.nb = 0
                /\ trial.used # "B"

\* The last trial of a call with stock_B = r, after B was used on every trial
\* before it: stock_B is down to 1, m = 6, and B overrides once more.
C9_Witness ==
    /\ epc = "running"
    /\ call.r >= 2
    /\ call.b = call.r
    /\ trial.depth = call.r
    /\ trial.b = 1
    /\ trial.m = 6
    /\ trial.used = "B"

\* C10: the frames of the recursion form a path from (r, b0, c0, d0): the
\* i-th frame has r - (i - 1) >= 1 trials remaining, stocks between 0 and the
\* initial ones, not above those of the frame below, and a total consumption
\* of at most i - 1; a recursive call is made with one trial less and a total
\* consumption of at most the trials elapsed, and the call with 0 trials
\* remaining is the one made from the r-th frame.
C10_TrialState ==
    epc = "running" =>
        /\ Len(stack) <= call.r
        /\ \A i \in 1..Len(stack) :
              LET f == stack[i]
              IN  /\ f.current_r = call.r - (i - 1)
                  /\ f.current_r >= 1
                  /\ 0 <= f.b /\ f.b <= call.b
                  /\ 0 <= f.c /\ f.c <= call.c
                  /\ 0 <= f.d /\ f.d <= call.d
                  /\ (call.b - f.b) + (call.c - f.c) + (call.d - f.d) <= i - 1
                  /\ i > 1 =>
                        /\ f.b <= stack[i - 1].b
                        /\ f.c <= stack[i - 1].c
                        /\ f.d <= stack[i - 1].d
        /\ trial.k # 0 =>
              /\ trial.next_r = call.r - trial.depth
              /\ 0 <= trial.next_r /\ trial.next_r <= call.r
              /\ (trial.next_r = 0) <=> (trial.depth = call.r)
              /\ 0 <= trial.nb /\ trial.nb <= trial.b
              /\ 0 <= trial.nc /\ trial.nc <= trial.c
              /\ 0 <= trial.nd /\ trial.nd <= trial.d
              /\ (call.b - trial.nb) + (call.c - trial.nc) + (call.d - trial.nd)
                    <= trial.depth

\* The call with 0 trials remaining is reached with every unit of a stock of
\* r units consumed.
C10_Witness ==
    /\ epc = "running"
    /\ call.r >= 2
    /\ Len(stack) = call.r
    /\ trial.next_r = 0
    /\ call.c + call.d = call.r
    /\ call.c >= 1
    /\ call.d >= 1
    /\ trial.nc = 0
    /\ trial.nd = 0


\* ============================================ claims on a single-trial call
ZeroConsumables == call.r = 1 /\ call.b = 0 /\ call.c = 0 /\ call.d = 0

\* The double nearest W/36.
NearestDouble(w) == FDiv(w, TOTAL_DICE_OUTCOMES)

\* C6 as stated: for r = 1 and no consumables the call returns exactly W/36,
\* W the sum of the weights of the dice sums with base outcome 1.
C6_ExactlyWOver36 ==
    (EvalReturned /\ ZeroConsumables) =>
        fresult = NearestDouble(WinningWeight(call.n, call.s, call.a))

\* C6 as amended: in exact arithmetic the returned sum is W/36; the double
\* returned is the double nearest W/36 or one of its two neighbours; and for
\* n = 0, s = 0, a = 0 it is the double nearest 21/36.
C6_WOver36UpToRounding ==
    (EvalReturned /\ ZeroConsumables) =>
        LET W      == WinningWeight(call.n, call.s, call.a)
            target == NearestDouble(W)
        IN  /\ result = W
            /\ EvalDen(call.r) = TOTAL_DICE_OUTCOMES
            /\ \/ fresult = target
               \/ fresult = FixAdd(target, UlpOf(target))
               \/ FixAdd(fresult, UlpOf(target)) = target
            /\ (call.n = 0 /\ call.s = 0 /\ call.a = 0) =>
                  /\ W = 21
                  /\ fresult = target

\* A call without consumables returned a double that is not the nearest one
\* to W/36, with some but not all of the sums 3..11 counting.
C6_Witness ==
    /\ EvalReturned
    /\ ZeroConsumables
    /\ WinningWeight(call.n, call.s, call.a) \in 2..34
    /\ result = WinningWeight(call.n, call.s, call.a)
    /\ fresult # NearestDouble(WinningWeight(call.n, call.s, call.a))

=============================================================================
